---- MODULE Spec2Model ----
(***************************************************************************)
(* Model of the place! macro of src/src/lib.rs: in-place construction of a *)
(* struct inside a caller-supplied MaybeUninit<T>.                          *)
(*                                                                         *)
(* One macro invocation is one "call".  A call is first compiled (the      *)
(* struct-expression witness _check_types, and the type checking of the    *)
(* expanded body), then, if it built, executed step by step: produce the   *)
(* buffer, bind buf/ptr, and for every listed field in source order        *)
(* evaluate the initializer and write it through a raw field pointer,      *)
(* finally assume_init_mut.  Memory is one flat heap of cells; a region is *)
(* the range of cells of one MaybeUninit<T>.                                *)
(***************************************************************************)
EXTENDS Integers, Sequences, FiniteSets, TLC

VARIABLES
  call,     \* call[r]: the invocation's static text: struct fields and initializer list
  layout,   \* layout[r]: memory order of the struct's fields chosen by the compiler
  pc,       \* pc[r]: position of the call
  idx,      \* idx[r]: index of the listed field the expansion is at
  ptr,      \* ptr[r]: <<>> or <<address>>, the local `ptr`
  pending,  \* pending[r]: the evaluated $f_val about to be written
  heap,     \* heap[a]: contents of memory cell a
  fill,     \* fill[r]: what the caller's buffer held when it was produced
  given,    \* given[r]: the values the initializers evaluated to, in listed order
  wcount,   \* wcount[r][f]: how many writes touched the storage of field f
  trace,    \* trace[r]: the observable events of the call, in order
  handle    \* handle[r]: <<>> or <<address>>, the yielded &mut T

vars == <<call, layout, pc, idx, ptr, pending, heap, fill, given, wcount, trace, handle>>

\* ---------------------------------------------------------------- bounds
MaxLen == 3

\* ------------------------------------------------------------ the domain
Regions == {1, 2}

FieldNames == {"b", "s", "v"}

\* Declared type of each field name (tests::MyCoolStruct).
FieldType(f) == CASE f = "b" -> "bool" [] f = "s" -> "String" [] OTHER -> "Vec"

\* Static type of an initializer expression; "never" is `!` (panic!(), loop {}).
ExprTypes == {"bool", "String", "Vec", "never"}

Inits == [name : FieldNames, ty : ExprTypes]

Lists(n) == UNION {[1..k -> Inits] : k \in 0..n}

Calls == [fields : SUBSET FieldNames, inits : Lists(MaxLen)]

NoCall == [fields |-> {}, inits |-> <<>>]

\* Size and alignment in cells (a cell is one machine word's worth of bytes
\* for the heap types, one byte for bool).
SizeOf(ty) == IF ty = "bool" THEN 1 ELSE 2

AlignOf(ty) == SizeOf(ty)

DataBytes == {"00", "01"}

Fills == {"uninit", "AA"}

ValuesOf(ty) == IF ty = "never" THEN {} ELSE [1..SizeOf(ty) -> DataBytes]

Names(L) == {L[i].name : i \in 1..Len(L)}

\* ---------------------------------------------------------------- layout
AlignUp(n, a) == ((n + a - 1) \div a) * a

Orders(D) == {o \in [1..Cardinality(D) -> D] : \A i, j \in 1..Cardinality(D) : o[i] = o[j] => i = j}

RECURSIVE EndOf(_, _)
\* End offset of the k-th field in memory order: each field starts at the next
\* offset aligned for its type.
EndOf(order, k) ==
  IF k = 0 THEN 0
  ELSE AlignUp(EndOf(order, k - 1), AlignOf(FieldType(order[k]))) + SizeOf(FieldType(order[k]))

PosOf(order, f) == CHOOSE k \in 1..Len(order) : order[k] = f

\* offset_of!(T, f): what addr_of_mut!((*ptr).f) adds to ptr.
OffsetOf(order, f) == EndOf(order, PosOf(order, f)) - SizeOf(FieldType(f))

StructAlign(order) == IF \E k \in 1..Len(order) : FieldType(order[k]) # "bool" THEN 2 ELSE 1

\* size_of::<T>()
StructSize(order) == AlignUp(EndOf(order, Len(order)), StructAlign(order))

\* Cells reserved per buffer: the largest struct plus cells of the caller's
\* own memory behind it.
RegionCap == 2 * (Cardinality(FieldNames) + 1)

Addr == 0..(Cardinality(Regions) * RegionCap - 1)

\* Address of the caller's MaybeUninit<T> numbered r.
BufAddr(r) == (r - 1) * RegionCap

RegionCells(r) == BufAddr(r)..(BufAddr(r) + StructSize(layout[r]) - 1)

FieldCells(r, f) ==
  LET o == BufAddr(r) + OffsetOf(layout[r], f) IN o..(o + SizeOf(FieldType(f)) - 1)

PaddingCells(r) == RegionCells(r) \ UNION {FieldCells(r, f) : f \in call[r].fields}

\* ------------------------------------------------------- build-time checks
CheckTypesNoMissing(D, L) ==
  /\ \A i \in 1..Len(L) : L[i].name \in D
  /\ \A i, j \in 1..Len(L) : L[i].name = L[j].name => i = j

\* fn _check_types() { $typ { $( $f: loop {} ),* }; }  The struct expression is
\* checked by rustc: every named field exists (E0560), none is given twice
\* (E0062), none is missing (E0063).  Every value is `loop {}`, of type `!`,
\* which coerces to any field type: the supplied $f_val do not appear here.
CheckTypes(D, L) ==
  /\ \A i \in 1..Len(L) : L[i].name \in D
  /\ \A i, j \in 1..Len(L) : L[i].name = L[j].name => i = j
  /\ \A f \in D : \E i \in 1..Len(L) : L[i].name = f

\* An expression of type ty is accepted where a value of type want is expected.
Coerces(ty, want) == ty = want \/ ty = "never"

WriterUntyped(D, L) == \A i \in 1..Len(L) : L[i].name \in D

\* addr_of_mut!((*ptr).$f).write($f_val): (*ptr).$f must name a field of $typ
\* and $f_val must have the field's type, the parameter type of write.
WriterTypeCheck(D, L) ==
  \A i \in 1..Len(L) : L[i].name \in D /\ Coerces(L[i].ty, FieldType(L[i].name))

\* The expansion compiles.
Builds(c) == CheckTypes(c.fields, c.inits) /\ WriterTypeCheck(c.fields, c.inits)

\* ------------------------------------------------------------ the expansion
Len0(r) == Len(call[r].inits)

\* The listed pair ($f, $f_val) the repetition is at.
CurInit(r) == call[r].inits[idx[r]]

FieldOfFirst(r) == call[r].inits[1].name

FieldOfDeclared(r) == layout[r][idx[r]]

\* $f of the current repetition of `$( ... (*ptr).$f ... )*`.
FieldOf(r) == CurInit(r).name

BufPtrShared(r) == BufAddr(1)

\* let buf: &mut MaybeUninit<$typ> = &mut $buf; let ptr = buf.as_mut_ptr();
BufPtr(r) == BufAddr(r)

FieldPtrBase(r) == ptr[r][1]

\* addr_of_mut!((*ptr).$f)
FieldPtr(r) == ptr[r][1] + OffsetOf(layout[r], FieldOf(r))

StoreLenWide(r) == Len(pending[r]) + 1

\* Number of cells `write` stores: size_of the field's type, the length of
\* the value.
StoreLen(r) == Len(pending[r])

\* The cells one write stores to.
StoreCells(r) == LET p == FieldPtr(r) IN p..(p + StoreLen(r) - 1)

\* core::ptr::write: copies the value's cells to the destination.
Store(r) ==
  LET p == FieldPtr(r)
      n == StoreLen(r)
  IN [a \in Addr |->
        IF p <= a /\ a < p + n
        THEN (IF a - p + 1 <= Len(pending[r]) THEN pending[r][a - p + 1] ELSE "00")
        ELSE heap[a]]

\* The declared field whose storage holds cell a of region r ("?" if none).
FieldAt(r, a) ==
  IF \E f \in call[r].fields : a \in FieldCells(r, f)
  THEN CHOOSE f \in call[r].fields : a \in FieldCells(r, f)
  ELSE "?"

CanMaterializeEarly(r) == idx[r] >= Len0(r)

CanMaterializeAlways(r) == TRUE

\* The repetition `$( ... )*` is over: control reaches assume_init_mut.
CanMaterialize(r) == idx[r] > Len0(r)

UnwindHeapDrop(r) == [a \in Addr |-> IF a \in RegionCells(r) THEN "uninit" ELSE heap[a]]

\* Memory after a panic unwinds out of the expansion: its locals are a
\* reference and a raw pointer, MaybeUninit has no drop glue, nothing is
\* torn down.
UnwindHeap(r) == heap

Event(op, i, f) == [op |-> op, i |-> i, f |-> f]

\* rustc compiles the invocation and lays out $typ.
Accept(r) ==
  /\ pc[r] = "call"
  /\ Builds(call[r])
  /\ \E o \in Orders(call[r].fields) : layout' = [layout EXCEPT ![r] = o]
  /\ pc' = [pc EXCEPT ![r] = "built"]
  /\ UNCHANGED <<call, idx, ptr, pending, heap, fill, given, wcount, trace, handle>>

\* rustc rejects the invocation: nothing of it ever runs.
Reject(r) ==
  /\ pc[r] = "call"
  /\ ~Builds(call[r])
  /\ pc' = [pc EXCEPT ![r] = "rejected"]
  /\ UNCHANGED <<call, layout, idx, ptr, pending, heap, fill, given, wcount, trace, handle>>

\* The caller produces the buffer: MaybeUninit::uninit(), or a buffer it
\* filled with a sentinel pattern beforehand.
ProduceBuf(r) ==
  /\ pc[r] = "built"
  /\ \E x \in Fills :
       /\ fill' = [fill EXCEPT ![r] = x]
       /\ heap' = [a \in Addr |-> IF a \in RegionCells(r) THEN x ELSE heap[a]]
  /\ pc' = [pc EXCEPT ![r] = "ready"]
  /\ UNCHANGED <<call, layout, idx, ptr, pending, given, wcount, trace, handle>>

\* let buf = &mut $buf; let ptr = buf.as_mut_ptr();
Bind(r) ==
  /\ pc[r] = "ready"
  /\ ptr' = [ptr EXCEPT ![r] = <<BufPtr(r)>>]
  /\ idx' = [idx EXCEPT ![r] = 1]
  /\ trace' = [trace EXCEPT ![r] = Append(@, Event("bind", 0, "?"))]
  /\ pc' = [pc EXCEPT ![r] = "eval"]
  /\ UNCHANGED <<call, layout, pending, heap, fill, given, wcount, handle>>

\* $f_val of the current repetition evaluates to a value of its type.
EvalOk(r) ==
  /\ pc[r] = "eval"
  /\ idx[r] <= Len0(r)
  /\ \E v \in ValuesOf(CurInit(r).ty) :
       /\ pending' = [pending EXCEPT ![r] = v]
       /\ given' = [given EXCEPT ![r] = Append(@, v)]
  /\ trace' = [trace EXCEPT ![r] = Append(@, Event("eval", idx[r], CurInit(r).name))]
  /\ pc' = [pc EXCEPT ![r] = "write"]
  /\ UNCHANGED <<call, layout, idx, ptr, heap, fill, wcount, handle>>

\* $f_val of the current repetition yields no value: it panics (or leaves the
\* expansion by return, break or ?), and control leaves the call.
EvalPanic(r) ==
  /\ pc[r] = "eval"
  /\ idx[r] <= Len0(r)
  /\ heap' = UnwindHeap(r)
  /\ trace' = [trace EXCEPT ![r] = Append(@, Event("panic", idx[r], CurInit(r).name))]
  /\ pc' = [pc EXCEPT ![r] = "unwound"]
  /\ UNCHANGED <<call, layout, idx, ptr, pending, fill, given, wcount, handle>>

\* unsafe { addr_of_mut!((*ptr).$f).write($f_val); }
WriteField(r) ==
  /\ pc[r] = "write"
  /\ heap' = Store(r)
  /\ LET cells == StoreCells(r)
     IN wcount' = [q \in Regions |->
                     [f \in FieldNames |->
                        IF f \in call[q].fields /\ pc[q] \notin {"call", "rejected", "absent"}
                           /\ cells \cap FieldCells(q, f) # {}
                        THEN wcount[q][f] + 1 ELSE wcount[q][f]]]
  /\ trace' = [trace EXCEPT ![r] = Append(@, Event("write", idx[r], FieldAt(r, FieldPtr(r))))]
  /\ idx' = [idx EXCEPT ![r] = @ + 1]
  /\ pc' = [pc EXCEPT ![r] = "eval"]
  /\ UNCHANGED <<call, layout, ptr, pending, fill, given, handle>>

\* unsafe { buf.assume_init_mut() }
Materialize(r) ==
  /\ pc[r] = "eval"
  /\ CanMaterialize(r)
  /\ handle' = [handle EXCEPT ![r] = <<BufAddr(r)>>]
  /\ trace' = [trace EXCEPT ![r] = Append(@, Event("init", 0, "?"))]
  /\ pc' = [pc EXCEPT ![r] = "done"]
  /\ UNCHANGED <<call, layout, idx, ptr, pending, heap, fill, given, wcount>>

Step(r) ==
  \/ Accept(r)
  \/ Reject(r)
  \/ ProduceBuf(r)
  \/ Bind(r)
  \/ EvalOk(r)
  \/ EvalPanic(r)
  \/ WriteField(r)
  \/ Materialize(r)

Next == \E r \in Regions : Step(r)

InitWith(cs) ==
  /\ call = cs
  /\ pc = [r \in Regions |-> IF cs[r] = NoCall /\ r # 1 THEN "absent" ELSE "call"]
  /\ layout = [r \in Regions |-> <<>>]
  /\ idx = [r \in Regions |-> 0]
  /\ ptr = [r \in Regions |-> <<>>]
  /\ pending = [r \in Regions |-> <<>>]
  /\ heap = [a \in Addr |-> "uninit"]
  /\ fill = [r \in Regions |-> "uninit"]
  /\ given = [r \in Regions |-> <<>>]
  /\ wcount = [r \in Regions |-> [f \in FieldNames |-> 0]]
  /\ trace = [r \in Regions |-> <<>>]
  /\ handle = [r \in Regions |-> <<>>]

\* One invocation, over every struct shape and every initializer list.
Init == \E c \in Calls : InitWith([r \in Regions |-> IF r = 1 THEN c ELSE NoCall])

Spec == Init /\ [][Next]_vars

\* A two-field struct and its invocations, for two calls side by side.
PairCalls ==
  {c \in Calls : /\ c.fields = {"b", "s"}
                 /\ Len(c.inits) <= 2
                 /\ \A i \in 1..Len(c.inits) :
                      c.inits[i].name \in c.fields /\ c.inits[i].ty = FieldType(c.inits[i].name)}

InitTwo == \E c1, c2 \in PairCalls : InitWith([r \in Regions |-> IF r = 1 THEN c1 ELSE c2])

SpecTwo == InitTwo /\ [][Next]_vars

\* =================================================================== claims
D(r) == call[r].fields

L(r) == call[r].inits

\* The listed names are in exact bijection with the declared fields.
Bijective(c) == Len(c.inits) = Cardinality(c.fields) /\ Names(c.inits) = c.fields

\* Some initializer's type does not match the type of the field it is paired with.
TypeMismatch(c) ==
  \E i \in 1..Len(c.inits) :
    c.inits[i].name \in c.fields /\ ~Coerces(c.inits[i].ty, FieldType(c.inits[i].name))

Started(r) == pc[r] \in {"ready", "eval", "write", "done", "unwound"}

Ended(r) == pc[r] \in {"done", "unwound"}

\* Number of declared fields whose storage has been written.
Written(r) == Cardinality({f \in D(r) : wcount[r][f] > 0})

\* The region's state in the terms of the specification's state machine.
RegionState(r) ==
  IF handle[r] # <<>> \/ pc[r] = "done" THEN "Initialized"
  ELSE IF pc[r] \in {"eval", "write", "unwound"} THEN "Writing"
  ELSE "Uninitialized"

\* The cells of field f of the struct at address base.
ReadAt(r, base, f) ==
  [k \in 1..SizeOf(FieldType(f)) |-> heap[base + OffsetOf(layout[r], f) + k - 1]]

\* Reading field f through the yielded handle.
ReadField(r, f) == ReadAt(r, handle[r][1], f)

Untouched(r) ==
  /\ handle[r] = <<>>
  /\ trace[r] = <<>>
  /\ \A f \in FieldNames : wcount[r][f] = 0
  /\ \A a \in BufAddr(r)..(BufAddr(r) + RegionCap - 1) : heap[a] = "uninit"

\* C1: a call whose listed names are not in exact bijection with the declared
\* fields (omission, addition, repetition) is rejected at build time: it never
\* gets past compilation, no field is written, nothing is materialized, the
\* region stays uninitialized.
C1_CompletenessGate ==
  \A r \in Regions :
    (pc[r] # "absent" /\ ~Bijective(call[r])) =>
      pc[r] \in {"call", "rejected"} /\ Untouched(r)

\* A call rejected only for repeating a name (all names declared, none missing,
\* all types right).
C1_Witness ==
  \E r \in Regions :
    /\ pc[r] = "rejected"
    /\ Names(L(r)) = D(r)
    /\ Len(L(r)) > Cardinality(D(r))
    /\ WriterTypeCheck(D(r), L(r))
    /\ Untouched(r)

\* C2: after a well-formed call, reading each declared field through the
\* handle yields the value its initializer evaluated to, whatever the listed
\* order and whatever the region held before.
C2_RoundTrip ==
  \A r \in Regions :
    pc[r] = "done" =>
      /\ handle[r] # <<>>
      /\ \A f \in D(r) :
           \E i \in 1..Len0(r) : L(r)[i].name = f /\ ReadField(r, f) = given[r][i]

\* A three-field struct listed in an order other than its memory order, built
\* in a sentinel-filled buffer.
C2_Witness ==
  \E r \in Regions :
    /\ pc[r] = "done"
    /\ Cardinality(D(r)) = 3
    /\ fill[r] = "AA"
    /\ [i \in 1..3 |-> L(r)[i].name] # layout[r]
    /\ \A i \in 1..3 : ReadField(r, L(r)[i].name) = given[r][i]

RegionMove(a, b) ==
  \/ a = b
  \/ a = "Uninitialized" /\ b = "Writing"
  \/ a = "Writing" /\ b = "Initialized"

\* C3: whenever the handle has been yielded (the region is Initialized) every
\* declared field has been written, N = K; the region only moves
\* Uninitialized -> Writing -> Initialized.
C3_InitOnlyWhenFull ==
  [][\A r \in Regions :
       /\ RegionState(r) = "Initialized" => Written(r) = Cardinality(D(r))
       /\ RegionState(r)' = "Initialized" => Written(r)' = Cardinality(D(r))
       /\ RegionMove(RegionState(r), RegionState(r)')]_vars

C3_Witness ==
  \E r \in Regions :
    /\ RegionState(r) = "Initialized"
    /\ Cardinality(D(r)) = 3
    /\ Written(r) = 3

\* C4: every write of the call changes only cells inside the storage of the
\* field it writes, and every padding cell of the region holds, throughout and
\* after the call, what it held before.
C4_NoExtraneousWrites ==
  [][\A r \in Regions :
       /\ (pc[r] = "write" /\ pc'[r] # "write") =>
            \A a \in Addr : heap'[a] # heap[a] => a \in FieldCells(r, L(r)[idx[r]].name)
       /\ (pc[r] \in {"built", "ready", "eval", "write"} /\ Started(r)') =>
            \A a \in PaddingCells(r) : heap'[a] = fill'[r]]_vars

\* A finished call on a struct with padding, in a sentinel-filled buffer.
C4_Witness ==
  \E r \in Regions :
    /\ pc[r] = "done"
    /\ fill[r] = "AA"
    /\ PaddingCells(r) # {}
    /\ \A a \in PaddingCells(r) : heap[a] = "AA"
    /\ \A f \in D(r) : \A a \in FieldCells(r, f) : heap[a] # "AA"

WriteEvents(r) == SelectSeq(trace[r], LAMBDA e : e.op = "write")

\* C5: in a well-formed call each declared field's storage is written exactly
\* once: never twice at any moment, once each when the call returns, K writes
\* in all.
C5_SingleWrite ==
  \A r \in Regions :
    /\ \A f \in FieldNames : wcount[r][f] <= 1
    /\ pc[r] = "done" =>
         /\ \A f \in D(r) : wcount[r][f] = 1
         /\ Len(WriteEvents(r)) = Cardinality(D(r))

C5_Witness ==
  \E r \in Regions :
    /\ pc[r] = "done"
    /\ Cardinality(D(r)) = 3
    /\ \A f \in D(r) : wcount[r][f] = 1
    /\ Len(WriteEvents(r)) = 3

Panicked(r) == \E k \in 1..Len(trace[r]) : trace[r][k].op = "panic"

\* C6 as stated: every call that builds and begins executing ends with all K
\* fields written and the region Initialized; no execution ends in Writing.
C6_AllOrNothing ==
  \A r \in Regions :
    Ended(r) => RegionState(r) = "Initialized" /\ Written(r) = Cardinality(D(r))

\* C6 amended: the expansion of a call that builds and began executing has a
\* next step until the call ends; the call ends either Initialized with all K
\* fields written, or, only when an initializer yielded no value (it
\* panicked), in Writing with N < K fields written.
C6_AllOrNothingUnlessPanic ==
  \A r \in Regions :
    /\ (Started(r) /\ ~Ended(r)) => ENABLED Step(r)
    /\ (Ended(r) /\ ~Panicked(r)) =>
         RegionState(r) = "Initialized" /\ Written(r) = Cardinality(D(r))
    /\ (Ended(r) /\ Panicked(r)) =>
         /\ RegionState(r) = "Writing"
         /\ Written(r) = idx[r] - 1
         /\ Written(r) < Cardinality(D(r))

\* A call that ended with no panic: all three fields written, handle yielded.
C6_Witness ==
  \E r \in Regions :
    /\ Ended(r)
    /\ ~Panicked(r)
    /\ Cardinality(D(r)) = 3
    /\ Written(r) = 3
    /\ handle[r] # <<>>

\* C7 as stated: the witness check _check_types fails to compile whenever an
\* initializer's type does not match its field's declared type.
C7_CheckTypesRejectsMismatch ==
  \A r \in Regions :
    (pc[r] # "absent" /\ TypeMismatch(call[r])) => ~CheckTypes(D(r), L(r))

\* C7 amended: a call with an initializer whose type does not match its
\* field's declared type never gets past compilation and has no run-time
\* behaviour; it is the type check of the expanded write that rejects it.
C7_MismatchRejectedAtBuild ==
  \A r \in Regions :
    (pc[r] # "absent" /\ TypeMismatch(call[r])) =>
      /\ ~WriterTypeCheck(D(r), L(r))
      /\ pc[r] \in {"call", "rejected"}
      /\ Untouched(r)

\* A rejected call whose names are in bijection with the declared fields (the
\* witness check passes) and one of whose initializers has the wrong type.
C7_Witness ==
  \E r \in Regions :
    /\ pc[r] = "rejected"
    /\ TypeMismatch(call[r])
    /\ Bijective(call[r])
    /\ CheckTypes(D(r), L(r))
    /\ Untouched(r)

\* The events of a call listing l that runs to the end: bind, then for each
\* listed field its evaluation and its write, then the materialization.
ExpectedEvent(l, k) ==
  IF k = 1 THEN Event("bind", 0, "?")
  ELSE IF k = 2 * Len(l) + 2 THEN Event("init", 0, "?")
  ELSE IF k % 2 = 0 THEN Event("eval", k \div 2, l[k \div 2].name)
  ELSE Event("write", k \div 2, l[k \div 2].name)

\* C8: the region is bound first, then initializer i is evaluated and its
\* value written to the i-th listed field before initializer i+1 is
\* evaluated: evaluations and writes happen in listed order, and when
\* initializer i is evaluated exactly the first i-1 listed fields are written.
C8_SourceOrder ==
  \A r \in Regions :
    /\ Len(trace[r]) <= 2 * Len0(r) + 2
    /\ \A k \in 1..Len(trace[r]) :
         \/ trace[r][k] = ExpectedEvent(L(r), k)
         \/ /\ k = Len(trace[r])
            /\ ExpectedEvent(L(r), k).op = "eval"
            /\ trace[r][k] = [ExpectedEvent(L(r), k) EXCEPT !.op = "panic"]
    /\ pc[r] \in {"eval", "write", "unwound"} =>
         {f \in FieldNames : wcount[r][f] > 0} = {L(r)[j].name : j \in 1..(idx[r] - 1)}

\* The third initializer of a three-field call has just been evaluated, the
\* listed order differing from the memory order.
C8_Witness ==
  \E r \in Regions :
    /\ pc[r] = "write"
    /\ idx[r] = 3
    /\ Len0(r) = 3
    /\ [i \in 1..3 |-> L(r)[i].name] # layout[r]
    /\ {f \in FieldNames : wcount[r][f] > 0} = {L(r)[1].name, L(r)[2].name}

\* C9: when the initializer of the i-th listed field panics, the first i-1
\* listed fields stay written with their values (no teardown), the i-th and
\* later fields are not written, no handle is yielded, and the region is
\* neither Uninitialized nor Initialized.
C9_PartialInitOnPanic ==
  \A r \in Regions :
    pc[r] = "unwound" =>
      /\ idx[r] \in 1..Len0(r)
      /\ trace[r][Len(trace[r])] = Event("panic", idx[r], L(r)[idx[r]].name)
      /\ \A j \in 1..(idx[r] - 1) :
           /\ ReadAt(r, BufAddr(r), L(r)[j].name) = given[r][j]
           /\ wcount[r][L(r)[j].name] = 1
      /\ \A j \in idx[r]..Len0(r) :
           /\ wcount[r][L(r)[j].name] = 0
           /\ \A a \in FieldCells(r, L(r)[j].name) : heap[a] = fill[r]
      /\ handle[r] = <<>>
      /\ RegionState(r) = "Writing"
      /\ ~ENABLED Step(r)

\* The third initializer panicked after two fields were written.
C9_Witness ==
  \E r \in Regions :
    /\ pc[r] = "unwound"
    /\ idx[r] = 3
    /\ \A j \in 1..2 : ReadAt(r, BufAddr(r), L(r)[j].name) = given[r][j]
    /\ \A a \in FieldCells(r, L(r)[3].name) : heap[a] = fill[r]

RegionCap0(r) == BufAddr(r)..(BufAddr(r) + RegionCap - 1)

RECURSIVE RunAlone(_, _)
\* The memory of region r's buffer after the first j writes of its call, run
\* on its own from the buffer as produced.
RunAlone(r, j) ==
  IF j = 0
  THEN [a \in RegionCap0(r) |-> IF a \in RegionCells(r) THEN fill[r] ELSE "uninit"]
  ELSE LET m == RunAlone(r, j - 1)
           o == BufAddr(r) + OffsetOf(layout[r], L(r)[j].name)
       IN [a \in RegionCap0(r) |->
             IF o <= a /\ a < o + Len(given[r][j]) THEN given[r][j][a - o + 1] ELSE m[a]]

Own(r) == <<call[r], layout[r], idx[r], ptr[r], pending[r], fill[r], given[r],
            wcount[r], trace[r], handle[r], [a \in RegionCap0(r) |-> heap[a]]>>

\* C10: with two calls on two different regions, a step of one call changes
\* no cell and no state of the other call's region, and in every interleaving
\* each region ends in the state its call produces when run on its own.
C10_Independence ==
  [][\A r \in Regions :
       /\ pc'[r] = pc[r] => Own(r)' = Own(r)
       /\ Ended(r)' =>
            [a \in RegionCap0(r) |-> heap'[a]] = RunAlone(r, Len(given[r]))'
       /\ Ended(r)' => (pc'[r] = "done" <=> ~Panicked(r)')]_vars

\* Both calls are in mid-flight at once, each with one field written and the
\* next value evaluated.
C10_Witness ==
  /\ pc[1] = "write" /\ idx[1] = 2
  /\ pc[2] = "write" /\ idx[2] = 2
  /\ given[1] # given[2]

====
